---------------------------- MODULE Spec2Model ----------------------------
(***************************************************************************)
(* Fourier ptychography phase retrieval (Fourier_Ptychography_for_Phase_   *)
(* Retrieval.ipynb): the window geometry cell, the error metric minAngMSE, *)
(* the forward model of the TensorFlow graph, and one trial of             *)
(* run_simulation (measurement synthesis, projection stage,                *)
(* gradient-descent stage).                                                *)
(*                                                                         *)
(* Arrays are functions on 0..n-1 (numpy's zero-based indexing); a 2-D     *)
(* array is a function of rows whose values are functions of columns.      *)
(* The transforms (fft2, ifft2, the TensorFlow gradient) are not computed: *)
(* their results are drawn from bounded families.                          *)
(***************************************************************************)
EXTENDS Integers, Sequences, FiniteSets, TLC

VARIABLES
    \* ---- configuration and window geometry (cells 3 and 5)
    N, L, pitch, total_frame, xlocations, ylocations, counts, gi, gpc,
    \* ---- calls of minAngMSE (cell 2): the vectors, the phase factor, the results
    xt, xest, phase, MSE, mpc,
    \* ---- one trial of run_simulation (cell 7) and the configuration it reads
    is_mask, mask, is_noisy, pad_size, M, num_projection_loop, num_gd_iteration,
    objectFT, imSeqLowRes, imageRecoverFT, imageRecoverFTRep, seq, loop, pos,
    blockRead, inverse, iter_, batch_tensor, gradient_tensor, gradient_sum,
    mi, si, nproj, ngd, nsteps, pc,
    \* ---- the TensorFlow graph (cell 6): the batch fed to X_FT_EST, the value of
    \* FORWARD, the position of the comparison with the measurement synthesis
    X_FT_EST, FORWARD, fpc

geomVars == <<N, L, pitch, total_frame, xlocations, ylocations, counts, gi, gpc>>

mseVars == <<xt, xest, phase, MSE, mpc>>

\* the configuration run_simulation reads (cells 3 and 4, the call in cell 8)
cfgVars == <<is_mask, mask, is_noisy, pad_size, M, num_projection_loop, num_gd_iteration>>

\* the measurement stage
measVars == <<objectFT, imSeqLowRes, mi>>

\* the projection stage
projVars == <<imageRecoverFTRep, seq, loop, pos, blockRead, inverse, nproj>>

\* the gradient-descent stage
gdVars == <<iter_, batch_tensor, gradient_tensor, gradient_sum, si, ngd>>

runVars == <<cfgVars, measVars, projVars, gdVars, imageRecoverFT, nsteps, pc>>

\* the graph of cell 6
fwdVars == <<X_FT_EST, FORWARD, fpc>>

vars == <<geomVars, mseVars, runVars, fwdVars>>

-----------------------------------------------------------------------------
(* Bounds of the model *)

\* largest image side N explored by the geometry specification
GeomMaxN == 6

\* longest vector handed to minAngMSE
MseMaxLen == 2

\* largest image side N of a trial of run_simulation
MaxN == 4

\* most windows of a trial (the shuffle draws among total_frame! orders)
MaxFrames == 4

\* largest num_projection_loop and num_gd_iteration a caller supplies
MaxK1 == 2

MaxK2 == 2

\* most window steps of a trial: num_projection_loop * total_frame projection
\* steps plus num_gd_iteration * total_frame scatter steps
MaxSteps == 4

-----------------------------------------------------------------------------
(* numpy helpers *)

\* indices selected by the slice lo:hi of an axis of length len (0 <= lo, hi):
\* numpy clips the slice to the axis silently
SliceIdx(lo, hi, len) == { k \in 0..(len - 1) : lo <= k /\ k < hi }

\* np.zeros([rows, cols])
Zeros(rows, cols) == [r \in 0..(rows - 1) |-> [c \in 0..(cols - 1) |-> 0]]

\* sum of f over the finite set S of indices
RECURSIVE SumOver(_, _)
SumOver(S, f) ==
    IF S = {} THEN 0
    ELSE LET k == CHOOSE k \in S : TRUE
         IN  f[k] + SumOver(S \ {k}, f)

-----------------------------------------------------------------------------
(* Window geometry: cell 3 (total_frame) and cell 5 (mesh, locations, counts) *)

\* mutant: the frame loop stops one window short
TotalFrameShort(n, p) == (n \div p) * (n \div p) - 1

\* total_frame = int(N/pitch)**2
TotalFrame(n, p) == (n \div p) * (n \div p)

\* len(np.arange(0, N, pitch))
MeshLen(n, p) == (n + p - 1) \div p

\* mesh = np.arange(0, N, pitch)
Mesh(n, p) == [j \in 0..(MeshLen(n, p) - 1) |-> j * p]

\* mutant: meshgrid with indexing='ij' for the first output
XLocationsIJ(n, p) ==
    LET len == MeshLen(n, p)
    IN  [k \in 0..(len * len - 1) |-> Mesh(n, p)[k \div len]]

\* xlocations, ylocations = np.meshgrid(mesh, mesh), flattened: meshgrid's
\* default indexing is 'xy', so X[i, j] = mesh[j] and Y[i, j] = mesh[i], and
\* flatten() is row-major: entry k = i * len + j
XLocations(n, p) ==
    LET len == MeshLen(n, p)
    IN  [k \in 0..(len * len - 1) |-> Mesh(n, p)[k % len]]

YLocations(n, p) ==
    LET len == MeshLen(n, p)
    IN  [k \in 0..(len * len - 1) |-> Mesh(n, p)[k \div len]]

\* side of the accumulator: counts = np.zeros([2*N, 2*N])
AccSide(n) == 2 * n

\* mutant: the footprint slice ends one row and one column early
AddFootprintShort(acc, side, x, y, l) ==
    [r \in 0..(side - 1) |-> [c \in 0..(side - 1) |->
        IF r \in SliceIdx(x, x + l - 1, side) /\ c \in SliceIdx(y, y + l - 1, side)
        THEN acc[r][c] + 1
        ELSE acc[r][c]]]

\* counts[x:x+L, y:y+L] += 1
AddFootprint(acc, side, x, y, l) ==
    [r \in 0..(side - 1) |-> [c \in 0..(side - 1) |->
        IF r \in SliceIdx(x, x + l, side) /\ c \in SliceIdx(y, y + l, side)
        THEN acc[r][c] + 1
        ELSE acc[r][c]]]

\* mutant: the fold forgets the quadrant counts[N:2*N, N:2*N]
FoldNoCorner(acc, n) ==
    [r \in 0..(n - 1) |-> [c \in 0..(n - 1) |->
        acc[r][c] + acc[r][c + n] + acc[r + n][c]]]

\* counts = counts[0:N,0:N] + counts[0:N,N:2*N] + counts[N:2*N,0:N] + counts[N:2*N,N:2*N]
FoldQuadrants(acc, n) ==
    [r \in 0..(n - 1) |-> [c \in 0..(n - 1) |->
        acc[r][c] + acc[r][c + n] + acc[r + n][c] + acc[r + n][c + n]]]

\* the accumulator after the first k iterations of "for i in range(total_frame)"
RECURSIVE AccAfter(_, _, _, _)
AccAfter(k, n, l, p) ==
    IF k = 0 THEN Zeros(AccSide(n), AccSide(n))
    ELSE AddFootprint(AccAfter(k - 1, n, l, p), AccSide(n),
                      XLocations(n, p)[k - 1], YLocations(n, p)[k - 1], l)

\* the Energy-Normalization Map that cell 5 leaves in counts
Counts(n, l, p) == FoldQuadrants(AccAfter(TotalFrame(n, p), n, l, p), n)

\* ---- the cell as a state machine

\* the variables of run_simulation, before it is called
RunIdle ==
    /\ is_mask = FALSE
    /\ mask = << >>
    /\ is_noisy = FALSE
    /\ pad_size = 0
    /\ M = 0
    /\ num_projection_loop = 0
    /\ num_gd_iteration = 0
    /\ objectFT = << >>
    /\ imSeqLowRes = << >>
    /\ imageRecoverFT = << >>
    /\ imageRecoverFTRep = << >>
    /\ seq = << >>
    /\ loop = 0
    /\ pos = 0
    /\ blockRead = << >>
    /\ inverse = << >>
    /\ iter_ = 0
    /\ batch_tensor = << >>
    /\ gradient_tensor = << >>
    /\ gradient_sum = << >>
    /\ mi = 0
    /\ si = 0
    /\ nproj = 0
    /\ ngd = 0
    /\ nsteps = 0
    /\ pc = "idle"

\* the graph of cell 6, not evaluated
FwdIdle ==
    /\ X_FT_EST = << >>
    /\ FORWARD = << >>
    /\ fpc = "idle"

\* the variables of the error metric, unused by the geometry cell
MseIdle ==
    /\ xt = << >>
    /\ xest = << >>
    /\ phase = 0
    /\ MSE = << >>
    /\ mpc = "idle"

GeomInit ==
    /\ MseIdle
    /\ FwdIdle
    /\ RunIdle
    /\ N \in 1..GeomMaxN
    /\ L \in 1..N
    /\ pitch \in 1..N
    /\ total_frame = TotalFrame(N, pitch)
    /\ xlocations = XLocations(N, pitch)
    /\ ylocations = YLocations(N, pitch)
    /\ counts = Zeros(AccSide(N), AccSide(N))
    /\ gi = 0
    /\ gpc = "accumulate"

\* one iteration of: for i in range(total_frame): counts[...] += 1
GeomAccumulate ==
    /\ gpc = "accumulate"
    /\ gi < total_frame
    /\ counts' = AddFootprint(counts, AccSide(N), xlocations[gi], ylocations[gi], L)
    /\ gi' = gi + 1
    /\ UNCHANGED <<N, L, pitch, total_frame, xlocations, ylocations, gpc>>
    /\ UNCHANGED <<mseVars, runVars, fwdVars>>

\* the loop is over; counts is rebound to the sum of the four quadrants
GeomFold ==
    /\ gpc = "accumulate"
    /\ gi = total_frame
    /\ counts' = FoldQuadrants(counts, N)
    /\ gpc' = "done"
    /\ UNCHANGED <<N, L, pitch, total_frame, xlocations, ylocations, gi>>
    /\ UNCHANGED <<mseVars, runVars, fwdVars>>

GeomNext == GeomAccumulate \/ GeomFold

SpecGeom == GeomInit /\ [][GeomNext]_vars

-----------------------------------------------------------------------------
(* Window geometry: properties *)

\* the pixels and the window indices of the current configuration
Pixels == 0..(N - 1)

Frames == 0..(total_frame - 1)

\* the stride divides N and the window does not exceed the wrap period
ValidGeometry == N % pitch = 0 /\ L <= N

\* window i covers pixel (r, c) under wrap-around
Covers(i, r, c) ==
    /\ (r - xlocations[i] + N) % N < L
    /\ (c - ylocations[i] + N) % N < L

\* the window list holds exactly total_frame entries, each pair of the grid once
WindowListIsGrid ==
    LET n == N \div pitch
        grid == { pitch * j : j \in 0..(n - 1) }
    IN  /\ total_frame = n * n
        /\ DOMAIN xlocations = Frames
        /\ DOMAIN ylocations = Frames
        /\ \A a \in grid : \A b \in grid :
              Cardinality({ i \in Frames : xlocations[i] = a /\ ylocations[i] = b }) = 1

\* C8 as stated: for N divisible by the stride the window list has total_frame
\* = (N/stride)^2 entries, holds every grid pair once, and lists the pairs
\* (x, y) in row-major order (x is the slow coordinate, y the fast one).
C8_RowMajorWindowList ==
    N % pitch = 0 =>
        /\ WindowListIsGrid
        /\ \A i \in Frames :
              /\ xlocations[i] = pitch * (i \div (N \div pitch))
              /\ ylocations[i] = pitch * (i % (N \div pitch))

\* C8 amended: for N divisible by the stride the window list has total_frame
\* = (N/stride)^2 entries, holds every grid pair once, and lists the pairs with
\* x varying fastest: entry i is (stride * (i mod n), stride * (i div n)).
C8_WindowList ==
    N % pitch = 0 =>
        /\ WindowListIsGrid
        /\ \A i \in Frames :
              /\ xlocations[i] = pitch * (i % (N \div pitch))
              /\ ylocations[i] = pitch * (i \div (N \div pitch))

C8_Witness ==
    /\ N % pitch = 0
    /\ N \div pitch >= 3
    /\ gpc = "done"

\* C2 as stated: with the stride dividing N and L <= N every entry of the
\* Energy-Normalization Map is >= 1.
C2_CountsPositiveAnyL ==
    (gpc = "done" /\ ValidGeometry) =>
        \A r \in Pixels : \A c \in Pixels : counts[r][c] >= 1

\* C2 amended: with the stride dividing N and stride <= L <= N every entry of
\* the Energy-Normalization Map is >= 1 (every pixel is covered by a window).
C2_CountsPositive ==
    (gpc = "done" /\ ValidGeometry /\ pitch <= L) =>
        \A r \in Pixels : \A c \in Pixels : counts[r][c] >= 1

C2_Witness ==
    /\ gpc = "done"
    /\ ValidGeometry
    /\ pitch = L
    /\ 1 < pitch
    /\ pitch < N

\* C3: with the stride dividing N and L <= N, counts[r, c] is the number of
\* windows covering (r, c) under wrap-around, and no footprint reaches beyond
\* the 2N x 2N accumulator.
C3_CountsAreCoverage ==
    ValidGeometry =>
        /\ \A i \in Frames :
              xlocations[i] + L <= AccSide(N) /\ ylocations[i] + L <= AccSide(N)
        /\ gpc = "done" =>
              \A r \in Pixels : \A c \in Pixels :
                  counts[r][c] = Cardinality({ i \in Frames : Covers(i, r, c) })

C3_Witness ==
    /\ gpc = "done"
    /\ ValidGeometry
    /\ \E i \in Frames : xlocations[i] + L > N /\ ylocations[i] + L > N
    /\ \E r \in Pixels : \E c \in Pixels : counts[r][c] >= 2
    /\ \E r \in Pixels : \E c \in Pixels : counts[r][c] # counts[0][0]

\* C9: with the stride dividing N and L <= N the map is invariant under a
\* shift by the stride (wrapped modulo N) along either axis.
C9_CountsShiftInvariant ==
    (gpc = "done" /\ ValidGeometry) =>
        \A r \in Pixels : \A c \in Pixels :
            /\ counts[(r + pitch) % N][c] = counts[r][c]
            /\ counts[r][(c + pitch) % N] = counts[r][c]

C9_Witness ==
    /\ gpc = "done"
    /\ ValidGeometry
    /\ 1 < pitch
    /\ pitch < N
    /\ \E r \in Pixels : \E c \in Pixels : counts[r][c] # counts[0][0]

\* C10: with the stride dividing N and L <= N the entries of the map sum to
\* total_frame * L^2.
C10_CountsSum ==
    (gpc = "done" /\ ValidGeometry) =>
        SumOver(Pixels, [r \in Pixels |-> SumOver(Pixels, counts[r])])
            = total_frame * L * L

C10_Witness ==
    /\ gpc = "done"
    /\ ValidGeometry
    /\ total_frame >= 4
    /\ 1 < L
    /\ \E i \in Frames : xlocations[i] + L > N

-----------------------------------------------------------------------------
(* Exact arithmetic: complex numbers with rational parts, real surd sums *)

IAbs(a) == IF a < 0 THEN -a ELSE a

RECURSIVE Gcd(_, _)
Gcd(a, b) == IF b = 0 THEN a ELSE Gcd(b, a % b)

\* a rational num/den in lowest terms, den > 0
Rat(num, den) ==
    LET g == Gcd(IAbs(num), IAbs(den))
        s == IF den < 0 THEN -1 ELSE 1
    IN  <<s * (num \div g), s * (den \div g)>>

RatAdd(a, b) == Rat(a[1] * b[2] + b[1] * a[2], a[2] * b[2])

RatMul(a, b) == Rat(a[1] * b[1], a[2] * b[2])

\* the complex number (re + j*im)/den in lowest terms, den > 0
Cplx(re, im, den) ==
    LET g == Gcd(Gcd(IAbs(re), IAbs(im)), den)
    IN  [re |-> re \div g, im |-> im \div g, den |-> den \div g]

CZero == Cplx(0, 0, 1)

CAdd(a, b) ==
    Cplx(a.re * b.den + b.re * a.den, a.im * b.den + b.im * a.den, a.den * b.den)

CMul(a, b) ==
    Cplx(a.re * b.re - a.im * b.im, a.re * b.im + a.im * b.re, a.den * b.den)

CConj(a) == [re |-> a.re, im |-> -a.im, den |-> a.den]

\* the largest c with c*c dividing m (m >= 1)
SquarePart(m) ==
    CHOOSE c \in 1..m :
        /\ m % (c * c) = 0
        /\ \A d \in (c + 1)..m : d * d <= m => m % (d * d) # 0

\* A real number is a finite sum of terms coef * sqrt(rad), rad square-free:
\* the set of its terms [rad, coef] with coef # 0.  Square roots of distinct
\* square-free integers are linearly independent over the rationals, so two
\* reals are equal exactly when their sets of terms are.
RZero == {}

RCoef(A, rad) ==
    IF \E t \in A : t.rad = rad
    THEN (CHOOSE t \in A : t.rad = rad).coef
    ELSE <<0, 1>>

RAdd(A, B) ==
    LET rads == { t.rad : t \in A \cup B }
        all  == { [rad |-> r, coef |-> RatAdd(RCoef(A, r), RCoef(B, r))] : r \in rads }
    IN  { t \in all : t.coef[1] # 0 }

\* A * (p/q)
RScale(A, p, q) ==
    { t \in { [rad |-> s.rad, coef |-> RatMul(s.coef, Rat(p, q))] : s \in A } :
        t.coef[1] # 0 }

\* mutant: the real part in place of the modulus
CReal(z) ==
    IF z.re = 0 THEN RZero ELSE { [rad |-> 1, coef |-> Rat(z.re, z.den)] }

\* np.abs(z) = sqrt(re^2 + im^2) / den
CAbs(z) ==
    IF z.re = 0 /\ z.im = 0 THEN RZero
    ELSE LET m == z.re * z.re + z.im * z.im
             c == SquarePart(m)
         IN  { [rad |-> m \div (c * c), coef |-> Rat(c, z.den)] }

-----------------------------------------------------------------------------
(* Error metric: cell 2 *)

\* np.vdot(a, b): the sum of conj(a[k]) * b[k]
RECURSIVE VDotUpTo(_, _, _)
VDotUpTo(a, b, k) ==
    IF k = 0 THEN CZero
    ELSE CAdd(VDotUpTo(a, b, k - 1), CMul(CConj(a[k - 1]), b[k - 1]))

VDot(a, b) == VDotUpTo(a, b, Cardinality(DOMAIN a))

\* mutant: the cross term is subtracted once instead of twice
minAngMSEOnce(x, est) ==
    RScale(RAdd(RAdd(CAbs(VDot(x, x)), CAbs(VDot(est, est))),
                RScale(CAbs(VDot(x, est)), -1, 1)),
           1, Cardinality(DOMAIN x))

\* mse = |vdot(xt,xt)| + |vdot(xest,xest)| - 2*|vdot(xt,xest)|; mse / xt.shape[0]
minAngMSE(x, est) ==
    RScale(RAdd(RAdd(CAbs(VDot(x, x)), CAbs(VDot(est, est))),
                RScale(CAbs(VDot(x, est)), -2, 1)),
           1, Cardinality(DOMAIN x))

\* the entries of the vectors handed to the metric
MseEntries == { Cplx(0, 0, 1), Cplx(1, 0, 1), Cplx(0, 1, 1), Cplx(-1, 2, 1) }

\* unit-modulus factors e^{j psi} with rational parts: j, -1, (3+4j)/5, (4-3j)/5
UnitPhases == { Cplx(0, 1, 1), Cplx(-1, 0, 1), Cplx(3, 4, 5), Cplx(4, -3, 5) }

\* u * v for a scalar u and a vector v
Rotate(u, v) == [k \in DOMAIN v |-> CMul(u, v[k])]

\* the variables of the geometry cell, unused by the metric
GeomIdle ==
    /\ N = 1
    /\ L = 1
    /\ pitch = 1
    /\ total_frame = 0
    /\ xlocations = << >>
    /\ ylocations = << >>
    /\ counts = << >>
    /\ gi = 0
    /\ gpc = "idle"

MseInit ==
    /\ GeomIdle
    /\ FwdIdle
    /\ RunIdle
    /\ \E n \in 1..MseMaxLen :
          /\ xt \in [0..(n - 1) -> MseEntries]
          /\ xest \in [0..(n - 1) -> MseEntries]
    /\ phase \in UnitPhases
    /\ MSE = << >>
    /\ mpc = "base"

\* MSE["base"] = minAngMSE(xt, xest)
MseBase ==
    /\ mpc = "base"
    /\ MSE' = [c \in {"base"} |-> minAngMSE(xt, xest)]
    /\ mpc' = "rotated"
    /\ UNCHANGED <<xt, xest, phase, geomVars, runVars, fwdVars>>

\* MSE["rotated"] = minAngMSE(xt, phase * xest)
MseRotated ==
    /\ mpc = "rotated"
    /\ MSE' = [c \in {"base", "rotated"} |->
                  IF c = "rotated" THEN minAngMSE(xt, Rotate(phase, xest)) ELSE MSE[c]]
    /\ mpc' = "self"
    /\ UNCHANGED <<xt, xest, phase, geomVars, runVars, fwdVars>>

\* MSE["self"] = minAngMSE(xt, xt) and MSE["selfRotated"] = minAngMSE(xt, phase * xt)
MseSelf ==
    /\ mpc = "self"
    /\ MSE' = [c \in {"base", "rotated", "self", "selfRotated"} |->
                  CASE c = "self" -> minAngMSE(xt, xt)
                    [] c = "selfRotated" -> minAngMSE(xt, Rotate(phase, xt))
                    [] OTHER -> MSE[c]]
    /\ mpc' = "done"
    /\ UNCHANGED <<xt, xest, phase, geomVars, runVars, fwdVars>>

MseNext == MseBase \/ MseRotated \/ MseSelf

SpecMSE == MseInit /\ [][MseNext]_vars

\* C5: minAngMSE is invariant to a global phase of the estimate:
\* minAngMSE(x, u*xest) = minAngMSE(x, xest) for unit-modulus u, and
\* minAngMSE(x, x) = 0 = minAngMSE(x, u*x).
C5_GlobalPhaseInvariant ==
    mpc = "done" =>
        /\ MSE["rotated"] = MSE["base"]
        /\ MSE["self"] = RZero
        /\ MSE["selfRotated"] = RZero

C5_Witness ==
    /\ mpc = "done"
    /\ phase = Cplx(3, 4, 5)
    /\ MSE["base"] # RZero
    /\ \E t \in MSE["base"] : t.rad # 1
    /\ Rotate(phase, xest) # xest
    /\ xt # xest

-----------------------------------------------------------------------------
(* run_simulation (cell 7): values and array operations *)

\* a value that is not a finite number (numpy's nan and inf, from a division
\* by zero); it is absorbing and never equal to a number
NonFinite == [re |-> 0, im |-> 0, den |-> 0]

IsFinite(a) == a.den # 0

FAdd(a, b) == IF IsFinite(a) /\ IsFinite(b) THEN CAdd(a, b) ELSE NonFinite

FNeg(a) == IF IsFinite(a) THEN Cplx(-a.re, -a.im, a.den) ELSE NonFinite

FMul(a, b) == IF IsFinite(a) /\ IsFinite(b) THEN CMul(a, b) ELSE NonFinite

\* a / b for complex a and b: a * conj(b) / |b|^2; a division by zero yields
\* inf or nan (a RuntimeWarning, no exception)
FDiv(a, b) ==
    IF ~IsFinite(a) \/ ~IsFinite(b) \/ (b.re = 0 /\ b.im = 0) THEN NonFinite
    ELSE Cplx((a.re * b.re + a.im * b.im) * b.den,
              (a.im * b.re - a.re * b.im) * b.den,
              a.den * (b.re * b.re + b.im * b.im))

\* an L x L block of a 2-D array: arr[x:x+L, y:y+L]
Block(arr, x, y, l) ==
    [a \in 0..(l - 1) |-> [b \in 0..(l - 1) |-> arr[x + a][y + b]]]

\* matlib.repmat(arr, 2, 2) of an n x n array
Repmat(arr, n) ==
    [r \in 0..(2 * n - 1) |-> [c \in 0..(2 * n - 1) |-> arr[r % n][c % n]]]

\* blk * mask, elementwise
MulMask(blk, m, l) ==
    [a \in 0..(l - 1) |-> [b \in 0..(l - 1) |-> FMul(blk[a][b], m[a][b])]]

\* blk / mask, elementwise
DivMask(blk, m, l) ==
    [a \in 0..(l - 1) |-> [b \in 0..(l - 1) |-> FDiv(blk[a][b], m[a][b])]]

\* dest[rlo:rhi, clo:chi] = src[sr:, sc:] on an n x n array dest (the source
\* region has the shape of the destination region)
AssignBlock(dest, n, rlo, rhi, clo, chi, src, sr, sc) ==
    [r \in 0..(n - 1) |-> [c \in 0..(n - 1) |->
        IF r \in SliceIdx(rlo, rhi, n) /\ c \in SliceIdx(clo, chi, n)
        THEN src[sr + (r - rlo)][sc + (c - clo)]
        ELSE dest[r][c]]]

\* dest[rlo:rhi, clo:chi] += src[sr:, sc:]
AddBlock(dest, n, rlo, rhi, clo, chi, src, sr, sc) ==
    [r \in 0..(n - 1) |-> [c \in 0..(n - 1) |->
        IF r \in SliceIdx(rlo, rhi, n) /\ c \in SliceIdx(clo, chi, n)
        THEN FAdd(dest[r][c], src[sr + (r - rlo)][sc + (c - clo)])
        ELSE dest[r][c]]]

\* the window of frame i crosses the N-boundary: xlocations[i] > N - L
CrossX(i) == xlocations[i] > N - L

CrossY(i) == ylocations[i] > N - L

\* mutant: a crossing window is read from the tiled copy as it was last built,
\* when there is one
ReadWindowStale(est, rep, i) ==
    IF ~CrossX(i) /\ ~CrossY(i)
    THEN Block(est, xlocations[i], ylocations[i], L)
    ELSE IF imageRecoverFTRep = << >>
    THEN Block(rep, xlocations[i], ylocations[i], L)
    ELSE Block(imageRecoverFTRep, xlocations[i], ylocations[i], L)

\* the block a projection step reads for window i: from imageRecoverFT when
\* the window crosses no boundary, else from the tiled copy rep
ReadWindow(est, rep, i) ==
    IF ~CrossX(i) /\ ~CrossY(i)
    THEN Block(est, xlocations[i], ylocations[i], L)
    ELSE Block(rep, xlocations[i], ylocations[i], L)

\* mutant: the wrapped destination pieces receive the head of the block (the
\* source offsets N - x and N - y are forgotten)
WriteBackHead(est, inv, i) ==
    LET x == xlocations[i]
        y == ylocations[i]
    IN  IF ~CrossX(i) /\ ~CrossY(i) THEN
            AssignBlock(est, N, x, x + L, y, y + L, inv, 0, 0)
        ELSE IF CrossX(i) /\ ~CrossY(i) THEN
            LET e1 == AssignBlock(est, N, x, N, y, y + L, inv, 0, 0)
            IN  AssignBlock(e1, N, 0, L + x - N, y, y + L, inv, 0, 0)
        ELSE IF ~CrossX(i) /\ CrossY(i) THEN
            LET e1 == AssignBlock(est, N, x, x + L, y, N, inv, 0, 0)
            IN  AssignBlock(e1, N, x, x + L, 0, L + y - N, inv, 0, 0)
        ELSE
            LET e1 == AssignBlock(est, N, x, N, y, N, inv, 0, 0)
                e2 == AssignBlock(e1, N, 0, L + x - N, 0, L + y - N, inv, 0, 0)
                e3 == AssignBlock(e2, N, x, N, 0, L + y - N, inv, 0, 0)
            IN  AssignBlock(e3, N, 0, L + x - N, y, N, inv, 0, 0)

\* the wrap-aware write-back of the corrected block inv for window i
WriteBack(est, inv, i) ==
    LET x == xlocations[i]
        y == ylocations[i]
    IN  IF ~CrossX(i) /\ ~CrossY(i) THEN
            AssignBlock(est, N, x, x + L, y, y + L, inv, 0, 0)
        ELSE IF CrossX(i) /\ ~CrossY(i) THEN
            LET e1 == AssignBlock(est, N, x, N, y, y + L, inv, 0, 0)
            IN  AssignBlock(e1, N, 0, L + x - N, y, y + L, inv, N - x, 0)
        ELSE IF ~CrossX(i) /\ CrossY(i) THEN
            LET e1 == AssignBlock(est, N, x, x + L, y, N, inv, 0, 0)
            IN  AssignBlock(e1, N, x, x + L, 0, L + y - N, inv, 0, N - y)
        ELSE
            LET e1 == AssignBlock(est, N, x, N, y, N, inv, 0, 0)
                e2 == AssignBlock(e1, N, 0, L + x - N, 0, L + y - N, inv, N - x, N - y)
                e3 == AssignBlock(e2, N, x, N, 0, L + y - N, inv, 0, N - y)
            IN  AssignBlock(e3, N, 0, L + x - N, y, N, inv, N - x, 0)

\* mutant: the gradient block overwrites the accumulator instead of adding
ScatterAssign(gsum, g, i) == WriteBack(gsum, g, i)

\* the scatter of the gradient block g of window i into gradient_sum
Scatter(gsum, g, i) ==
    LET x == xlocations[i]
        y == ylocations[i]
    IN  IF ~CrossX(i) /\ ~CrossY(i) THEN
            AddBlock(gsum, N, x, x + L, y, y + L, g, 0, 0)
        ELSE IF CrossX(i) /\ ~CrossY(i) THEN
            LET g1 == AddBlock(gsum, N, x, N, y, y + L, g, 0, 0)
            IN  AddBlock(g1, N, 0, L + x - N, y, y + L, g, N - x, 0)
        ELSE IF ~CrossX(i) /\ CrossY(i) THEN
            LET g1 == AddBlock(gsum, N, x, x + L, y, N, g, 0, 0)
            IN  AddBlock(g1, N, x, x + L, 0, L + y - N, g, 0, N - y)
        ELSE
            LET g1 == AddBlock(gsum, N, x, N, y, N, g, 0, 0)
                g2 == AddBlock(g1, N, 0, L + x - N, 0, L + y - N, g, N - x, N - y)
                g3 == AddBlock(g2, N, x, N, 0, L + y - N, g, 0, N - y)
            IN  AddBlock(g3, N, 0, L + x - N, y, N, g, N - x, 0)

\* lr, the learning rate: the default of run_simulation, 0.5 = LrNum / LrDen
LrNum == 1

LrDen == 2

\* imageRecoverFT - lr * gradient_sum / counts
GradientUpdate(est, gsum, cnt) ==
    [r \in 0..(N - 1) |-> [c \in 0..(N - 1) |->
        FAdd(est[r][c],
             FNeg(FDiv(FMul(Cplx(LrNum, 0, LrDen), gsum[r][c]),
                       Cplx(cnt[r][c], 0, 1))))]]

-----------------------------------------------------------------------------
(* run_simulation (cell 7): one trial as a state machine *)

\* fftshift(fft2(xt)) of the trial's signal: not computed, a generic spectrum
\* with pairwise different pixels
SignalSpectrum(n) ==
    [r \in 0..(n - 1) |-> [c \in 0..(n - 1) |-> Cplx(2 * r + 1, -(c + 1), 1)]]

\* fftshift(fft2(xt)) / N / np.sqrt(counts): the pixel num / sqrt(cnt), kept as
\* a term because the square root is irrational (cnt = 0 is a division by zero)
ObjectFT(n, cnt) ==
    [r \in 0..(n - 1) |-> [c \in 0..(n - 1) |->
        [num |-> FDiv(SignalSpectrum(n)[r][c], Cplx(n, 0, 1)), cnt |-> cnt[r][c]]]]

\* imSeqLowFT * mask on a block of objectFT
MulMaskTerm(blk, m, l) ==
    [a \in 0..(l - 1) |-> [b \in 0..(l - 1) |->
        [num |-> FMul(blk[a][b].num, m[a][b]), cnt |-> blk[a][b].cnt]]]

\* np.abs(np.fft.ifft2(np.fft.ifftshift(np.pad(blk, pad)))) * scale: the
\* amplitude frame of a block, kept as the term of its arguments
ForwardAmplitude(blk, pad, scale) ==
    [src |-> blk, pad |-> pad, scale |-> scale, noise |-> "none"]

\* np.sqrt(np.random.poisson(np.power(np.abs(frames), 2))): the draw is not
\* computed, each frame becomes the term of a Poisson draw around it
Noisy(frames) == [i \in DOMAIN frames |-> [frames[i] EXCEPT !.noise = "poisson"]]

\* np.fft.fftshift(np.fft.fft2(np.random.randn(N, N))): not computed, a
\* generic spectrum with pairwise different pixels
InitialEstimate(n) ==
    [r \in 0..(n - 1) |-> [c \in 0..(n - 1) |-> Cplx(r + 1, c + 1, 1)]]

\* a unit-modulus phase mask (cell 4): entries among 1, j, -1, (3+4j)/5
PhaseMask(l) ==
    [a \in 0..(l - 1) |-> [b \in 0..(l - 1) |->
        CASE (a + 2 * b) % 4 = 0 -> Cplx(0, 1, 1)
          [] (a + 2 * b) % 4 = 1 -> Cplx(3, 4, 5)
          [] (a + 2 * b) % 4 = 2 -> Cplx(-1, 0, 1)
          [] OTHER -> Cplx(1, 0, 1)]]

\* a supplied mask with a zero-modulus entry (a 0/1 aperture such as gen_mura(p))
ZeroEntryMask(l) ==
    [a \in 0..(l - 1) |-> [b \in 0..(l - 1) |->
        IF a = l - 1 /\ b = l - 1 THEN CZero ELSE Cplx(1, 0, 1)]]

\* the cropped block inverse[pad:pad+L, pad:pad+L] of a projection step, the
\* result of ifft2, the amplitude substitution and fft2: not computed.  It is
\* the block that went in when the frame already has the measured amplitude,
\* and otherwise some other block
FreshBlock(i, l) ==
    [a \in 0..(l - 1) |-> [b \in 0..(l - 1) |-> Cplx(10 + i, a * l + b + 1, 1)]]

ProjectedBlocks(i, blk, l) == { blk, FreshBlock(i, l) }

\* the result of sess.run(gradient, ...): not computed, one of an all-zero
\* tensor, an all-ones tensor and a tensor with pairwise different entries
GradientTensors(frames, l) ==
    { [i \in frames |-> [a \in 0..(l - 1) |-> [b \in 0..(l - 1) |-> CZero]]],
      [i \in frames |-> [a \in 0..(l - 1) |-> [b \in 0..(l - 1) |-> Cplx(1, 0, 1)]]],
      [i \in frames |-> [a \in 0..(l - 1) |-> [b \in 0..(l - 1) |->
          Cplx(i + 1, a * l + b + 1, 1)]]] }

\* mutant: positions drawn with replacement (random.choices)
DrawnOrders(S) == [S -> S]

\* the rearrangements random.shuffle applies to a list with positions S
ShuffleOrders(S) == { f \in [S -> S] : \A a \in S : \A b \in S : f[a] = f[b] => a = b }

\* the state when run_simulation is called: cells 3 to 6 have run
Init ==
    /\ MseIdle
    /\ FwdIdle
    /\ N \in 1..MaxN
    /\ L \in 1..N
    /\ pitch \in 1..N
    /\ TotalFrame(N, pitch) <= MaxFrames
    /\ total_frame = TotalFrame(N, pitch)
    /\ xlocations = XLocations(N, pitch)
    /\ ylocations = YLocations(N, pitch)
    /\ counts = Counts(N, L, pitch)
    /\ gi = total_frame
    /\ gpc = "done"
    /\ is_mask \in BOOLEAN
    /\ mask \in IF is_mask THEN {PhaseMask(L), ZeroEntryMask(L)} ELSE {PhaseMask(L)}
    /\ is_noisy \in BOOLEAN
    /\ pad_size = L \div 2
    /\ M = L + pad_size * 2
    /\ num_projection_loop \in 0..MaxK1
    /\ num_gd_iteration \in 0..MaxK2
    /\ (num_projection_loop + num_gd_iteration) * total_frame <= MaxSteps
    /\ objectFT = << >>
    /\ imSeqLowRes = << >>
    /\ imageRecoverFT = << >>
    /\ imageRecoverFTRep = << >>
    /\ seq = << >>
    /\ loop = 0
    /\ pos = 0
    /\ blockRead = << >>
    /\ inverse = << >>
    /\ iter_ = 0
    /\ batch_tensor = << >>
    /\ gradient_tensor = << >>
    /\ gradient_sum = << >>
    /\ mi = 0
    /\ si = 0
    /\ nproj = 0
    /\ ngd = 0
    /\ nsteps = 0
    /\ pc = "start"

\* lines 215-220: the normalised, tiled spectrum of the signal
Signal ==
    /\ pc = "start"
    /\ objectFT' = Repmat(ObjectFT(N, counts), N)
    /\ imSeqLowRes' = << >>
    /\ mi' = 0
    /\ pc' = "measure"
    /\ nsteps' = nsteps + 1
    /\ UNCHANGED <<fwdVars, geomVars, mseVars, cfgVars, projVars, gdVars, imageRecoverFT>>

\* lines 221-227: the frame of window mi
Measure ==
    /\ pc = "measure"
    /\ mi < total_frame
    /\ LET blk == Block(objectFT, xlocations[mi], ylocations[mi], L)
           in  == IF is_mask THEN MulMaskTerm(blk, mask, L) ELSE blk
       IN  imSeqLowRes' = [i \in 0..mi |->
               IF i = mi THEN ForwardAmplitude(in, pad_size, M) ELSE imSeqLowRes[i]]
    /\ mi' = mi + 1
    /\ nsteps' = nsteps + 1
    /\ UNCHANGED <<fwdVars, geomVars, mseVars, cfgVars, projVars, gdVars, imageRecoverFT,
                   objectFT, pc>>

\* lines 228-229: the Poisson draw, when is_noisy
Noise ==
    /\ pc = "measure"
    /\ mi = total_frame
    /\ imSeqLowRes' = IF is_noisy THEN Noisy(imSeqLowRes) ELSE imSeqLowRes
    /\ pc' = "init"
    /\ nsteps' = nsteps + 1
    /\ UNCHANGED <<fwdVars, geomVars, mseVars, cfgVars, projVars, gdVars, imageRecoverFT,
                   objectFT, mi>>

\* lines 232-234: the initial estimate and the visiting order
InitEstimate ==
    /\ pc = "init"
    /\ imageRecoverFT' = InitialEstimate(N)
    /\ seq' = [k \in Frames |-> k]
    /\ loop' = 0
    /\ pc' = "loop"
    /\ nsteps' = nsteps + 1
    /\ UNCHANGED <<fwdVars, geomVars, mseVars, cfgVars, measVars, gdVars,
                   imageRecoverFTRep, pos, blockRead, inverse, nproj>>

\* lines 235-236: the next outer loop starts with a shuffle
Shuffle ==
    /\ pc = "loop"
    /\ loop < num_projection_loop
    /\ \E order \in ShuffleOrders(DOMAIN seq) : seq' = [k \in DOMAIN seq |-> seq[order[k]]]
    /\ pos' = 0
    /\ pc' = "window"
    /\ nsteps' = nsteps + 1
    /\ UNCHANGED <<fwdVars, geomVars, mseVars, cfgVars, measVars, gdVars, imageRecoverFT,
                   imageRecoverFTRep, loop, blockRead, inverse, nproj>>

\* mutant: the amplitude substitution of line 244 is made in place, in the
\* frame of the measurement set
ProjectWindowInPlace ==
    /\ pc = "window"
    /\ pos < total_frame
    /\ LET i   == seq[pos]
           rep == IF CrossX(i) \/ CrossY(i)
                  THEN Repmat(imageRecoverFT, N)
                  ELSE imageRecoverFTRep
           blk == ReadWindow(imageRecoverFT, rep, i)
           in  == IF is_mask THEN MulMask(blk, mask, L) ELSE blk
       IN  /\ imageRecoverFTRep' = rep
           /\ blockRead' = blk
           /\ \E crop \in ProjectedBlocks(i, in, L) :
                 inverse' = IF is_mask THEN DivMask(crop, mask, L) ELSE crop
           /\ imageRecoverFT' = WriteBack(imageRecoverFT, inverse', i)
    /\ imSeqLowRes' = [imSeqLowRes EXCEPT ![seq[pos]].noise = "phase"]
    /\ pos' = pos + 1
    /\ nproj' = nproj + 1
    /\ nsteps' = nsteps + 1
    /\ UNCHANGED <<fwdVars, geomVars, mseVars, cfgVars, objectFT, mi, gdVars, seq, loop, pc>>

\* lines 237-272: the projection step of window seq[pos]
ProjectWindow ==
    /\ pc = "window"
    /\ pos < total_frame
    /\ LET i   == seq[pos]
           rep == IF CrossX(i) \/ CrossY(i)
                  THEN Repmat(imageRecoverFT, N)
                  ELSE imageRecoverFTRep
           blk == ReadWindow(imageRecoverFT, rep, i)
           in  == IF is_mask THEN MulMask(blk, mask, L) ELSE blk
       IN  /\ imageRecoverFTRep' = rep
           /\ blockRead' = blk
           /\ \E crop \in ProjectedBlocks(i, in, L) :
                 inverse' = IF is_mask THEN DivMask(crop, mask, L) ELSE crop
           /\ imageRecoverFT' = WriteBack(imageRecoverFT, inverse', i)
    /\ pos' = pos + 1
    /\ nproj' = nproj + 1
    /\ nsteps' = nsteps + 1
    /\ UNCHANGED <<fwdVars, geomVars, mseVars, cfgVars, measVars, gdVars, seq, loop, pc>>

\* "for i in seq" is exhausted: the outer loop counter advances
EndLoop ==
    /\ pc = "window"
    /\ pos = total_frame
    /\ loop' = loop + 1
    /\ pc' = "loop"
    /\ nsteps' = nsteps + 1
    /\ UNCHANGED <<fwdVars, geomVars, mseVars, cfgVars, measVars, gdVars, imageRecoverFT,
                   imageRecoverFTRep, seq, pos, blockRead, inverse, nproj>>

\* mutant: the projection stage may end before its last loop (a convergence test)
StartGradientEarly ==
    /\ pc = "loop"
    /\ loop <= num_projection_loop
    /\ iter_' = 0
    /\ pc' = "gd"
    /\ nsteps' = nsteps + 1
    /\ UNCHANGED <<fwdVars, geomVars, mseVars, cfgVars, measVars, projVars, imageRecoverFT,
                   batch_tensor, gradient_tensor, gradient_sum, si, ngd>>

\* "for loop in range(num_projection_loop)" is exhausted; line 278
StartGradient ==
    /\ pc = "loop"
    /\ loop = num_projection_loop
    /\ iter_' = 0
    /\ pc' = "gd"
    /\ nsteps' = nsteps + 1
    /\ UNCHANGED <<fwdVars, geomVars, mseVars, cfgVars, measVars, projVars, imageRecoverFT,
                   batch_tensor, gradient_tensor, gradient_sum, si, ngd>>

\* lines 279-283: the tiled copy, the batch of all windows, the zeroed accumulator
GdExtract ==
    /\ pc = "gd"
    /\ iter_ < num_gd_iteration
    /\ imageRecoverFTRep' = Repmat(imageRecoverFT, N)
    /\ batch_tensor' = [i \in Frames |->
                           Block(imageRecoverFTRep', xlocations[i], ylocations[i], L)]
    /\ gradient_sum' = [r \in Pixels |-> [c \in Pixels |-> CZero]]
    /\ pc' = "grad"
    /\ nsteps' = nsteps + 1
    /\ UNCHANGED <<fwdVars, geomVars, mseVars, cfgVars, measVars, imageRecoverFT, seq, loop,
                   pos, blockRead, inverse, nproj, iter_, gradient_tensor, si, ngd>>

\* line 284: the gradient of the loss at the batch
GdGradient ==
    /\ pc = "grad"
    /\ gradient_tensor' \in GradientTensors(Frames, L)
    /\ si' = 0
    /\ pc' = "scatter"
    /\ nsteps' = nsteps + 1
    /\ UNCHANGED <<fwdVars, geomVars, mseVars, cfgVars, measVars, projVars, imageRecoverFT,
                   iter_, batch_tensor, gradient_sum, ngd>>

\* mutant: the estimate is updated after the scatter of each window
GdScatterThenUpdate ==
    /\ pc = "scatter"
    /\ si < total_frame
    /\ gradient_sum' = Scatter(gradient_sum, gradient_tensor[si], si)
    /\ imageRecoverFT' = GradientUpdate(imageRecoverFT, gradient_sum', counts)
    /\ si' = si + 1
    /\ nsteps' = nsteps + 1
    /\ UNCHANGED <<fwdVars, geomVars, mseVars, cfgVars, measVars, projVars,
                   iter_, batch_tensor, gradient_tensor, ngd, pc>>

\* lines 285-298: the gradient block of window si is added into gradient_sum
GdScatter ==
    /\ pc = "scatter"
    /\ si < total_frame
    /\ gradient_sum' = Scatter(gradient_sum, gradient_tensor[si], si)
    /\ si' = si + 1
    /\ nsteps' = nsteps + 1
    /\ UNCHANGED <<fwdVars, geomVars, mseVars, cfgVars, measVars, projVars, imageRecoverFT,
                   iter_, batch_tensor, gradient_tensor, ngd, pc>>

\* line 299: the update of the estimate
GdUpdate ==
    /\ pc = "scatter"
    /\ si = total_frame
    /\ imageRecoverFT' = GradientUpdate(imageRecoverFT, gradient_sum, counts)
    /\ iter_' = iter_ + 1
    /\ ngd' = ngd + 1
    /\ pc' = "gd"
    /\ nsteps' = nsteps + 1
    /\ UNCHANGED <<fwdVars, geomVars, mseVars, cfgVars, measVars, projVars,
                   batch_tensor, gradient_tensor, gradient_sum, si>>

\* "for iter_ in range(num_gd_iteration)" is exhausted; lines 303-304
Finish ==
    /\ pc = "gd"
    /\ iter_ = num_gd_iteration
    /\ pc' = "done"
    /\ nsteps' = nsteps + 1
    /\ UNCHANGED <<fwdVars, geomVars, mseVars, cfgVars, measVars, projVars, gdVars,
                   imageRecoverFT>>

Next ==
    \/ Signal
    \/ Measure
    \/ Noise
    \/ InitEstimate
    \/ Shuffle
    \/ ProjectWindow
    \/ EndLoop
    \/ StartGradient
    \/ GdExtract
    \/ GdGradient
    \/ GdScatter
    \/ GdUpdate
    \/ Finish

Spec == Init /\ [][Next]_vars

-----------------------------------------------------------------------------
(* run_simulation: properties *)

\* the estimate exists: the projection stage has initialised it
HasEstimate == pc \in {"loop", "window", "gd", "grad", "scatter", "done"}

\* the window a projection step has just handled
LastWindow == seq[pos - 1]

\* C1: for stride dividing N and L <= N, and for every window of the list, the
\* L x L block read at the window from the 2x2 tiled copy of the estimate,
\* written back unmodified by the projection stage's write-back, leaves every
\* pixel of the estimate as it was.
C1_ExtractWriteBackIdentity ==
    (HasEstimate /\ ValidGeometry) =>
        \A i \in Frames :
            WriteBack(imageRecoverFT,
                      Block(Repmat(imageRecoverFT, N), xlocations[i], ylocations[i], L),
                      i) = imageRecoverFT

\* a projection step has just written back, on a window crossing both
\* boundaries, the block it read, after other windows received new blocks
C1_Witness ==
    /\ pc = "window"
    /\ pos > 0
    /\ ValidGeometry
    /\ ~is_mask
    /\ CrossX(LastWindow) /\ CrossY(LastWindow)
    /\ L < N
    /\ inverse = blockRead
    /\ imageRecoverFT # InitialEstimate(N)

\* the all-zero gradient tensor
ZeroTensor ==
    [i \in Frames |-> [a \in 0..(L - 1) |-> [b \in 0..(L - 1) |-> CZero]]]

\* C4 as stated: with an all-zero gradient block for every window, the
\* gradient iteration (scatter, division by counts, update with lr) leaves
\* every pixel of the estimate unchanged, for every window layout.
C4_ZeroGradientKeepsEstimate ==
    [][(pc = "scatter" /\ si = total_frame /\ gradient_tensor = ZeroTensor)
          => imageRecoverFT' = imageRecoverFT]_vars

\* C4 where no pixel is left uncovered: with counts >= 1 everywhere an all-zero
\* gradient leaves every pixel of the estimate unchanged.
C4_ZeroGradientCovered ==
    [][(/\ pc = "scatter"
        /\ si = total_frame
        /\ gradient_tensor = ZeroTensor
        /\ \A r \in Pixels : \A c \in Pixels : counts[r][c] >= 1)
          => imageRecoverFT' = imageRecoverFT]_vars

\* the supplied mask is used and has a zero-modulus entry
MaskHasZero ==
    is_mask /\ \E a \in 0..(L - 1) : \E b \in 0..(L - 1) :
                   mask[a][b].re = 0 /\ mask[a][b].im = 0

\* C6 as stated: when N is not divisible by the stride, or L > N, or the mask
\* has a zero-modulus entry, the run aborts before any measurement, projection
\* or gradient step and produces no estimate.
C6_InvalidConfigurationAborts ==
    (N % pitch # 0 \/ L > N \/ MaskHasZero) =>
        /\ mi = 0
        /\ nproj = 0
        /\ ngd = 0
        /\ ~HasEstimate

\* the statements a trial has still to run, counted in steps of the model
StepsLeft ==
    LET perLoop == total_frame + 2
        perIter == total_frame + 3
        gdLeft  == (num_gd_iteration - iter_) * perIter + 1
        allGd   == num_gd_iteration * perIter + 1
        prLeft  == (num_projection_loop - loop) * perLoop + 1 + allGd
        allPr   == num_projection_loop * perLoop + 1 + allGd
    IN  CASE pc = "start"   -> total_frame + 3 + allPr
          [] pc = "measure" -> (total_frame - mi) + 2 + allPr
          [] pc = "init"    -> 1 + allPr
          [] pc = "loop"    -> prLeft
          [] pc = "window"  -> prLeft - 1 - pos
          [] pc = "gd"      -> gdLeft
          [] pc = "grad"    -> gdLeft - 1
          [] pc = "scatter" -> gdLeft - 2 - si
          [] OTHER          -> 0

\* the steps of a whole trial
StepsAtStart ==
    (total_frame + 3) + (num_projection_loop * (total_frame + 2) + 1)
        + (num_gd_iteration * (total_frame + 3) + 1)

\* the guard of Next: some statement of the trial is still to run (each
\* disjunct is the guard of the action or actions at that position)
NextGuard ==
    \/ pc = "start"
    \/ pc = "measure" /\ mi <= total_frame
    \/ pc = "init"
    \/ pc = "loop" /\ loop <= num_projection_loop
    \/ pc = "window" /\ pos <= total_frame
    \/ pc = "gd" /\ iter_ <= num_gd_iteration
    \/ pc = "grad"
    \/ pc = "scatter" /\ si <= total_frame

\* C7: for every num_projection_loop >= 0 and num_gd_iteration >= 0 the trial
\* terminates (every step taken leaves one step fewer to run, and the trial
\* never stops before it is done), having run exactly num_projection_loop *
\* total_frame projection steps and then exactly num_gd_iteration gradient
\* updates; no gradient step runs before the last projection step.
C7_FixedStepCounts ==
    /\ nsteps + StepsLeft = StepsAtStart
    /\ pc # "done" => NextGuard
    /\ pc = "done" =>
          /\ nproj = num_projection_loop * total_frame
          /\ ngd = num_gd_iteration
    /\ (pc \in {"gd", "grad", "scatter"} \/ ngd > 0) =>
          nproj = num_projection_loop * total_frame

C7_Witness ==
    /\ pc = "done"
    /\ num_projection_loop = 2
    /\ num_gd_iteration = 2
    /\ nproj = 2
    /\ ngd = 2
    /\ nsteps = StepsAtStart


-----------------------------------------------------------------------------
(* The forward model: the graph of cell 6 and the measurement synthesis *)

\* largest window side L, pad size and batch fed to the forward models, and
\* the number of different input blocks
FwdMaxL == 2

FwdMaxPad == 1

FwdMaxBatch == 2

FwdMaxSeed == 2

\* np.pad(a, p) of a rows x cols array: p zeros before and after, on every axis
NpPad(a, rows, cols, p) ==
    [r \in 0..(rows + 2 * p - 1) |-> [c \in 0..(cols + 2 * p - 1) |->
        IF r \in p..(p + rows - 1) /\ c \in p..(p + cols - 1)
        THEN a[r - p][c - p]
        ELSE CZero]]

\* np.fft.ifftshift(a) of a rows x cols array: every axis is rolled by
\* -(n // 2), so entry k of the result is entry (k + n // 2) mod n
NpIfftShift(a, rows, cols) ==
    [r \in 0..(rows - 1) |-> [c \in 0..(cols - 1) |->
        a[(r + rows \div 2) % rows][(c + cols \div 2) % cols]]]

\* the inverse 2-D discrete Fourier transform of a 2-D array (np.fft.ifft2,
\* and tf.signal.ifft2d on each frame): not computed, the term of its argument
Ifft2D(a) == [op |-> "ifft2", of |-> a]

\* the elementwise magnitude (np.abs, tf.abs)
Magnitude(t) == [op |-> "abs", of |-> t]

\* t * m for the scalar m
Scale(t, m) == [op |-> "times", of |-> t, by |-> m]

\* lines 222-227: the amplitude frame the measurement synthesis makes of a block
NumpyForward(blk) ==
    LET in   == IF is_mask THEN MulMask(blk, mask, L) ELSE blk
        side == L + 2 * pad_size
    IN  Scale(Magnitude(Ifft2D(NpIfftShift(NpPad(in, L, L, pad_size), side, side))), M)

\* line 164: paddings, one <<before, after>> pair per axis of the batch
Paddings == << <<0, 0>>, <<pad_size, pad_size>>, <<pad_size, pad_size>> >>

\* the shape of a tensor of shape sh after tf.pad(., pd)
PaddedShape(sh, pd) == [k \in 1..3 |-> sh[k] + pd[k][1] + pd[k][2]]

\* tf.pad(t, pd) of a 3-D tensor of shape sh, mode CONSTANT, value 0
TfPad(t, sh, pd) ==
    LET ps == PaddedShape(sh, pd)
        inside(k, ax) == k \in pd[ax][1]..(pd[ax][1] + sh[ax] - 1)
    IN  [i \in 0..(ps[1] - 1) |-> [r \in 0..(ps[2] - 1) |-> [c \in 0..(ps[3] - 1) |->
            IF inside(i, 1) /\ inside(r, 2) /\ inside(c, 3)
            THEN t[i - pd[1][1]][r - pd[2][1]][c - pd[3][1]]
            ELSE CZero]]]

\* mutant: the shift rolls every axis of the batch, the frame axis included
TfIfftShiftAllAxes(t, sh, axes) ==
    [i \in 0..(sh[1] - 1) |-> [r \in 0..(sh[2] - 1) |-> [c \in 0..(sh[3] - 1) |->
        t[(i + sh[1] \div 2) % sh[1]][(r + sh[2] \div 2) % sh[2]]
         [(c + sh[3] \div 2) % sh[3]]]]]

\* tf.signal.ifftshift(t, axes) of a 3-D tensor of shape sh: the axes listed
\* (numbered from 0) are rolled by -(n // 2), the others are left alone
TfIfftShift(t, sh, axes) ==
    LET from(k, ax) == IF (ax - 1) \in axes THEN (k + sh[ax] \div 2) % sh[ax] ELSE k
    IN  [i \in 0..(sh[1] - 1) |-> [r \in 0..(sh[2] - 1) |-> [c \in 0..(sh[3] - 1) |->
            t[from(i, 1)][from(r, 2)][from(c, 3)]]]]

\* tf.multiply(t, m): the L x L constant m is broadcast over the frames
TfMultiply(t, frames, m) == [i \in 0..(frames - 1) |-> MulMask(t[i], m, L)]

\* lines 166-171: the value of FORWARD when the batch t of frames blocks is fed
\* to X_FT_EST; ifft2d, abs and the product with M act on each frame
TfForward(t, frames) ==
    LET sh      == <<frames, L, L>>
        in      == IF is_mask THEN TfMultiply(t, frames, mask) ELSE t
        padded  == TfPad(in, sh, Paddings)
        shifted == TfIfftShift(padded, PaddedShape(sh, Paddings), {1, 2})
    IN  [i \in 0..(frames - 1) |-> Scale(Magnitude(Ifft2D(shifted[i])), M)]

\* an input block with pairwise different entries, different for each seed
FedBlock(seed, l) ==
    [a \in 0..(l - 1) |-> [b \in 0..(l - 1) |->
        Cplx(seed * l * l + a * l + b + 1, a - b, 1)]]

\* the variables the comparison of the two forward models leaves alone
fwdFrame ==
    <<mseVars, N, L, pitch, total_frame, xlocations, ylocations, counts, gi, gpc,
      cfgVars, objectFT, projVars, gdVars, imageRecoverFT, nsteps, pc, X_FT_EST>>

\* cells 3, 4 and 6 have run; a batch of total_frame blocks is at hand
FwdInit ==
    /\ MseIdle
    /\ N = FwdMaxL
    /\ L \in 1..FwdMaxL
    /\ pitch = 1
    /\ total_frame \in 1..FwdMaxBatch
    /\ xlocations = << >>
    /\ ylocations = << >>
    /\ counts = << >>
    /\ gi = 0
    /\ gpc = "idle"
    /\ is_mask \in BOOLEAN
    /\ mask = PhaseMask(L)
    /\ is_noisy = FALSE
    /\ pad_size \in 0..FwdMaxPad
    /\ M = L + pad_size * 2
    /\ num_projection_loop = 0
    /\ num_gd_iteration = 0
    /\ objectFT = << >>
    /\ imSeqLowRes = << >>
    /\ imageRecoverFT = << >>
    /\ imageRecoverFTRep = << >>
    /\ seq = << >>
    /\ loop = 0
    /\ pos = 0
    /\ blockRead = << >>
    /\ inverse = << >>
    /\ iter_ = 0
    /\ batch_tensor = << >>
    /\ gradient_tensor = << >>
    /\ gradient_sum = << >>
    /\ mi = 0
    /\ si = 0
    /\ nproj = 0
    /\ ngd = 0
    /\ nsteps = 0
    /\ pc = "idle"
    /\ \E seeds \in [0..(total_frame - 1) -> 0..FwdMaxSeed] :
          X_FT_EST = [i \in 0..(total_frame - 1) |-> FedBlock(seeds[i], L)]
    /\ FORWARD = << >>
    /\ fpc = "numpy"

\* lines 222-227 on block mi of the batch
FwdSynthesis ==
    /\ fpc = "numpy"
    /\ mi < total_frame
    /\ imSeqLowRes' = [i \in 0..mi |->
           IF i = mi THEN NumpyForward(X_FT_EST[mi]) ELSE imSeqLowRes[i]]
    /\ mi' = mi + 1
    /\ UNCHANGED <<fwdFrame, FORWARD, fpc>>

\* the graph evaluates FORWARD on the whole batch
FwdGraph ==
    /\ fpc = "numpy"
    /\ mi = total_frame
    /\ FORWARD' = TfForward(X_FT_EST, total_frame)
    /\ fpc' = "done"
    /\ UNCHANGED <<fwdFrame, imSeqLowRes, mi>>

FwdNext == FwdSynthesis \/ FwdGraph

SpecFwd == FwdInit /\ [][FwdNext]_vars

\* C11: with the same mask switch, mask, pad size and scale M, the graph's
\* FORWARD and the measurement synthesis apply the same chain (mask, symmetric
\* zero pad, zero-frequency shift, inverse 2-D transform, magnitude, times M)
\* to a block: for every block of the batch the two amplitude frames are equal.
C11_ForwardModelsAgree ==
    fpc = "done" =>
        \A i \in 0..(total_frame - 1) :
            /\ FORWARD[i] = imSeqLowRes[i]
            /\ FORWARD[i].by = M
            /\ DOMAIN FORWARD[i].of.of.of = 0..(M - 1)

\* both models have run on a batch of two different blocks, masked and padded
C11_Witness ==
    /\ fpc = "done"
    /\ is_mask
    /\ pad_size = 1
    /\ L = 2
    /\ total_frame = 2
    /\ X_FT_EST[0] # X_FT_EST[1]
    /\ FORWARD[0] # FORWARD[1]

-----------------------------------------------------------------------------
(* run_simulation: the effect of a projection step and of the scatter *)

\* C12: a projection step for window i = seq[pos] with corrected block
\* inverse (L <= N) leaves estimate[(x + a) mod N][(y + b) mod N] =
\* inverse[a][b] for all a, b < L, in each of the four crossing cases, and
\* every pixel outside the wrapped footprint keeps its value.
C12_WriteBackEffect ==
    [][(pc = "window" /\ pos < total_frame /\ L <= N) =>
          LET i == seq[pos]
              x == xlocations[i]
              y == ylocations[i]
          IN  /\ \A a \in 0..(L - 1) : \A b \in 0..(L - 1) :
                    imageRecoverFT'[(x + a) % N][(y + b) % N] = inverse'[a][b]
              /\ \A r \in Pixels : \A c \in Pixels :
                    ~Covers(i, r, c) => imageRecoverFT'[r][c] = imageRecoverFT[r][c]
      ]_vars

\* a projection step has just written a new block on a window that crosses
\* both boundaries and leaves pixels outside its footprint
C12_Witness ==
    /\ pc = "window"
    /\ pos > 0
    /\ L < N
    /\ L > 1
    /\ CrossX(LastWindow) /\ CrossY(LastWindow)
    /\ inverse # blockRead
    /\ \E r \in Pixels : \E c \in Pixels : ~Covers(LastWindow, r, c)

\* the window offsets (i, a, b) that land on pixel (r, c) under wrap-around
Contributions(r, c) ==
    { t \in Frames \X (0..(L - 1)) \X (0..(L - 1)) :
        /\ (xlocations[t[1]] + t[2]) % N = r
        /\ (ylocations[t[1]] + t[3]) % N = c }

\* the sum of gradient_tensor[i][a][b] over a set T of window offsets
RECURSIVE GradientOver(_)
GradientOver(T) ==
    IF T = {} THEN CZero
    ELSE LET t == CHOOSE t \in T : TRUE
         IN  FAdd(gradient_tensor[t[1]][t[2]][t[3]], GradientOver(T \ {t}))

\* the all-ones gradient tensor
OnesTensor ==
    [i \in Frames |-> [a \in 0..(L - 1) |-> [b \in 0..(L - 1) |-> Cplx(1, 0, 1)]]]

\* C13: after the scatter-accumulate of a gradient iteration, gradient_sum[r][c]
\* is the sum of gradient_tensor[i][a][b] over all windows i and offsets (a, b)
\* with (xlocations[i] + a) mod N = r and (ylocations[i] + b) mod N = c
\* (nothing overwritten, dropped or counted twice); all-ones gradient blocks
\* accumulate to the Energy-Normalization Map counts.
C13_ScatterAccumulates ==
    (pc = "scatter" /\ si = total_frame) =>
        /\ \A r \in Pixels : \A c \in Pixels :
              gradient_sum[r][c] = GradientOver(Contributions(r, c))
        /\ gradient_tensor = OnesTensor =>
              \A r \in Pixels : \A c \in Pixels :
                  gradient_sum[r][c] = Cplx(counts[r][c], 0, 1)

\* the scatter is over with overlapping, wrapping windows and a gradient
\* whose entries all differ
C13_Witness ==
    /\ pc = "scatter"
    /\ si = total_frame
    /\ total_frame > 1
    /\ \E i \in Frames : CrossX(i) /\ CrossY(i)
    /\ \E r \in Pixels : \E c \in Pixels : Cardinality(Contributions(r, c)) > 1
    /\ gradient_tensor # OnesTensor
    /\ gradient_tensor # ZeroTensor

\* C14: in the projection stage the block read for window (x, y) is
\* estimate[(x + a) mod N][(y + b) mod N] of the estimate as the preceding
\* write-back left it (for the first step of a loop, the last step of the
\* previous loop), in the non-crossing and in the crossing branch; between two
\* projection steps nothing writes the estimate, and no stale tiled copy is read.
C14_ReadsCurrentEstimate ==
    [][
        /\ (pc = "window" /\ pos < total_frame) =>
              (LET i == seq[pos]
               IN  \A a \in 0..(L - 1) : \A b \in 0..(L - 1) :
                      blockRead'[a][b] =
                          imageRecoverFT[(xlocations[i] + a) % N][(ylocations[i] + b) % N])
        /\ (pc = "loop" \/ (pc = "window" /\ pos = total_frame)) =>
              (imageRecoverFT' = imageRecoverFT)
    ]_vars

\* a crossing window has been read after an earlier step of the same loop
\* built a tiled copy and a later step wrote a new block into the window
C14_Witness ==
    /\ pc = "window"
    /\ pos > 2
    /\ CrossX(LastWindow) \/ CrossY(LastWindow)
    /\ CrossX(seq[pos - 3]) \/ CrossY(seq[pos - 3])
    /\ blockRead # Block(Repmat(InitialEstimate(N), N),
                         xlocations[LastWindow], ylocations[LastWindow], L)

-----------------------------------------------------------------------------
(* run_simulation: trials with several projection loops over several windows *)

\* largest image side and most loops (num_projection_loop + num_gd_iteration)
\* of a trial with repeated loops
LoopsMaxN == 2

LoopsMaxLoops == 2

\* the state when run_simulation is called, without mask and noise
InitLoops ==
    /\ MseIdle
    /\ FwdIdle
    /\ N \in 1..LoopsMaxN
    /\ L \in 1..N
    /\ pitch \in 1..N
    /\ TotalFrame(N, pitch) <= MaxFrames
    /\ total_frame = TotalFrame(N, pitch)
    /\ xlocations = XLocations(N, pitch)
    /\ ylocations = YLocations(N, pitch)
    /\ counts = Counts(N, L, pitch)
    /\ gi = total_frame
    /\ gpc = "done"
    /\ is_mask = FALSE
    /\ mask = PhaseMask(L)
    /\ is_noisy = FALSE
    /\ pad_size = L \div 2
    /\ M = L + pad_size * 2
    /\ num_projection_loop \in 0..LoopsMaxLoops
    /\ num_gd_iteration \in 0..LoopsMaxLoops
    /\ num_projection_loop + num_gd_iteration <= LoopsMaxLoops
    /\ objectFT = << >>
    /\ imSeqLowRes = << >>
    /\ imageRecoverFT = << >>
    /\ imageRecoverFTRep = << >>
    /\ seq = << >>
    /\ loop = 0
    /\ pos = 0
    /\ blockRead = << >>
    /\ inverse = << >>
    /\ iter_ = 0
    /\ batch_tensor = << >>
    /\ gradient_tensor = << >>
    /\ gradient_sum = << >>
    /\ mi = 0
    /\ si = 0
    /\ nproj = 0
    /\ ngd = 0
    /\ nsteps = 0
    /\ pc = "start"

SpecLoops == InitLoops /\ [][Next]_vars

\* seq lists every window index exactly once
SeqIsPermutation ==
    /\ DOMAIN seq = Frames
    /\ { seq[k] : k \in Frames } = Frames

\* the projection stage walks seq front to back: the order is fixed while a
\* loop runs, each step handles position pos and moves to the next one, a
\* loop starts at position 0 and ends only after the last position
WalksSeqOnce ==
    /\ pc = "window" => seq' = seq
    /\ (pc = "window" /\ pos < total_frame) => (pos' = pos + 1 /\ pc' = "window")
    /\ (pc = "window" /\ pc' # "window") => pos = total_frame
    /\ (pc = "loop" /\ pc' = "window") => pos' = 0

\* C15: at the start of every projection outer loop seq is a permutation of
\* {0, ..., total_frame-1}, whatever the earlier shuffles left in it, so each
\* outer loop projects every window index exactly once.
C15_EachWindowOncePerLoop ==
    /\ [](HasEstimate => SeqIsPermutation)
    /\ [][WalksSeqOnce]_vars

\* the second loop over four windows is over, in an order that is neither
\* the initial one nor (by its first window) a fresh start from it
C15_Witness ==
    /\ pc = "window"
    /\ loop = 1
    /\ pos = total_frame
    /\ total_frame = 4
    /\ seq # [k \in Frames |-> k]
    /\ seq[0] = 3
    /\ nproj = 8

\* the batch holds, for every window, the block of the estimate as it is now
BatchOfCurrentEstimate ==
    /\ DOMAIN batch_tensor = Frames
    /\ \A i \in Frames : \A a \in 0..(L - 1) : \A b \in 0..(L - 1) :
          batch_tensor[i][a][b] =
              imageRecoverFT[(xlocations[i] + a) % N][(ylocations[i] + b) % N]

\* the gradient stage writes the estimate only in the step that follows the
\* scatter of the last window, and that step ends the iteration
UpdatesAfterScatter ==
    /\ (pc \in {"gd", "grad", "scatter"} /\ ~(pc = "scatter" /\ si = total_frame)) =>
          (imageRecoverFT' = imageRecoverFT /\ ngd' = ngd /\ iter_' = iter_)
    /\ (pc = "scatter" /\ si = total_frame) =>
          /\ imageRecoverFT' = GradientUpdate(imageRecoverFT, gradient_sum, counts)
          /\ ngd' = ngd + 1
          /\ iter_' = iter_ + 1

\* C16: in each gradient iteration all total_frame blocks are extracted from one
\* estimate, the one at the start of the iteration; the estimate is not written
\* while the batch is extracted, the gradient computed or scattered; it is
\* updated exactly once per iteration, after the scatter over all windows.
C16_SnapshotAndSingleUpdate ==
    /\ [](pc \in {"grad", "scatter"} => BatchOfCurrentEstimate)
    /\ [](pc \in {"gd", "grad", "scatter", "done"} => ngd = iter_)
    /\ [][UpdatesAfterScatter]_vars

\* the scatter of the second iteration over four overlapping windows is over,
\* the first iteration having changed the estimate
C16_Witness ==
    /\ pc = "scatter"
    /\ si = total_frame
    /\ total_frame = 4
    /\ L = 2
    /\ iter_ = 1
    /\ ngd = 1
    /\ imageRecoverFT # InitialEstimate(N)
    /\ gradient_tensor # ZeroTensor

\* the measurement synthesis, the optional noise draw included, is over
MeasurementDone == pc \in {"init", "loop", "window", "gd", "grad", "scatter", "done"}

\* C17: once the measurement synthesis (with the optional noise draw) has
\* finished, no projection step and no gradient step modifies the measurement
\* set, the window list or the Energy-Normalization Map; of the trial's data
\* only the spectrum estimate is written by the two solver stages.
C17_SolverInputsReadOnly ==
    [][MeasurementDone =>
          /\ imSeqLowRes' = imSeqLowRes
          /\ xlocations' = xlocations
          /\ ylocations' = ylocations
          /\ total_frame' = total_frame
          /\ counts' = counts
          /\ objectFT' = objectFT
          /\ cfgVars' = cfgVars
      ]_vars

\* a trial with noisy frames is over: projection steps and a gradient update
\* have written the estimate
C17_Witness ==
    /\ pc = "done"
    /\ is_noisy
    /\ nproj > 0
    /\ ngd > 0
    /\ imageRecoverFT # InitialEstimate(N)
    /\ \A i \in Frames : imSeqLowRes[i].noise = "poisson"

=============================================================================
